---- MODULE Spec2Model ----
(***************************************************************************)
(* Model of 01_Text_generation/01_text_and_code_generation_w_bedrock.ipynb *)
(*                                                                         *)
(* A Python string is a sequence of symbols.  A symbol is one TLA+ string: *)
(* a special character (quote, backslash, newline, the non-ASCII U+2019),  *)
(* a markup token such as "<book>", or a run of ordinary ASCII text that   *)
(* json and the markup parser both pass through untouched.                 *)
(***************************************************************************)
EXTENDS Integers, Sequences, FiniteSets, TLC

\* ----------------------------------------------------------------- bounds
\* longest response text (in symbols) given to extract_by_tag
MaxLen == 4
\* longest prompt / query (in symbols) given to a request builder
MaxPromptLen == 2
\* most content elements in a service response
MaxContent == 2
\* the data rows of a sales.csv file other than the fixture
MaxRows == 2

\* ------------------------------------------------- Python values (json)
JStr(s) == [t |-> "str", s |-> s]
JInt(n) == [t |-> "int", n |-> n]
\* the float m / 10^e, written with e decimals (0.3 is JFloat(3, 1))
JFloat(m, e) == [t |-> "float", m |-> m, e |-> e]
\* a list
JArr(a) == [t |-> "arr", a |-> a]
\* a dict: its items <<key, value>> in insertion order, key a string
JObj(o) == [t |-> "obj", o |-> o]

RECURSIVE Pow10(_)
Pow10(e) == IF e = 0 THEN 1 ELSE 10 * Pow10(e - 1)

DigitChars == <<"0", "1", "2", "3", "4", "5", "6", "7", "8", "9">>

IsDigit(c) == \E d \in 1..10 : DigitChars[d] = c

DigitVal(c) == (CHOOSE d \in 1..10 : DigitChars[d] = c) - 1

\* int.__repr__: the decimal digits of n >= 0
RECURSIVE Digits(_)
Digits(n) == IF n < 10 THEN <<DigitChars[n + 1]>>
             ELSE Digits(n \div 10) \o <<DigitChars[(n % 10) + 1]>>

\* the e decimals of the fraction f / 10^e, leading zeros kept
RECURSIVE FracDigits(_, _)
FracDigits(f, e) == IF e = 0 THEN <<>>
                    ELSE FracDigits(f \div 10, e - 1) \o <<DigitChars[(f % 10) + 1]>>

\* float.__repr__ of m / 10^e
FloatRepr(m, e) == Digits(m \div Pow10(e)) \o <<".">> \o FracDigits(m % Pow10(e), e)

\* the one non-ASCII character of the model, U+2019, and its four hex digits
NonAscii == "U+2019"
HexOfNonAscii == <<"2", "0", "1", "9">>

\* a slip: the backslash is written as it is
EscapeCharNoBackslash(c) == CASE c = "\"" -> <<"\\", "\"">>
                              [] c = "\n" -> <<"\\", "n">>
                              [] c = NonAscii -> <<"\\", "u">> \o HexOfNonAscii
                              [] OTHER -> <<c>>

\* json.encoder.py_encode_basestring_ascii, one character (ensure_ascii=True)
EscapeChar(c) == CASE c = "\"" -> <<"\\", "\"">>
                   [] c = "\\" -> <<"\\", "\\">>
                   [] c = "\n" -> <<"\\", "n">>
                   [] c = NonAscii -> <<"\\", "u">> \o HexOfNonAscii
                   [] OTHER -> <<c>>

RECURSIVE EscapeStr(_)
EscapeStr(s) == IF s = <<>> THEN <<>> ELSE EscapeChar(Head(s)) \o EscapeStr(Tail(s))

EncodeStr(s) == <<"\"">> \o EscapeStr(s) \o <<"\"">>

\* json.dumps(v) with the default separators (", " and ": ")
RECURSIVE Dumps(_)
RECURSIVE DumpItems(_)
RECURSIVE DumpPairs(_)
DumpItems(a) == IF a = <<>> THEN <<>>
                ELSE Dumps(Head(a))
                     \o (IF Tail(a) = <<>> THEN <<>> ELSE <<",", " ">> \o DumpItems(Tail(a)))

DumpPairs(o) == IF o = <<>> THEN <<>>
                ELSE EncodeStr(Head(o)[1]) \o <<":", " ">> \o Dumps(Head(o)[2])
                     \o (IF Tail(o) = <<>> THEN <<>> ELSE <<",", " ">> \o DumpPairs(Tail(o)))

Dumps(v) == CASE v.t = "str" -> EncodeStr(v.s)
              [] v.t = "int" -> Digits(v.n)
              [] v.t = "float" -> FloatRepr(v.m, v.e)
              [] v.t = "arr" -> <<"[">> \o DumpItems(v.a) \o <<"]">>
              [] v.t = "obj" -> <<"{">> \o DumpPairs(v.o) \o <<"}">>

\* ------------------------------------------------------------ json.loads
\* Every parser takes the text s and an index i and gives [ok, v, i]: the
\* value read and the index after it, or ok = FALSE (JSONDecodeError).
Bad == [ok |-> FALSE, v |-> JInt(0), i |-> 0]

Good(v, i) == [ok |-> TRUE, v |-> v, i |-> i]

At(s, i) == IF i \in 1..Len(s) THEN s[i] ELSE "EOF"

RECURSIVE SkipWs(_, _)
SkipWs(s, i) == IF At(s, i) = " " THEN SkipWs(s, i + 1) ELSE i

\* json.decoder.py_scanstring from the index after the opening quote
RECURSIVE ScanString(_, _, _)
ScanString(s, i, acc) ==
    LET c == At(s, i) IN
    CASE c = "EOF" -> Bad
      [] c = "\"" -> Good(JStr(acc), i + 1)
      [] c = "\\" ->
           LET d == At(s, i + 1) IN
           CASE d = "\"" -> ScanString(s, i + 2, Append(acc, "\""))
             [] d = "\\" -> ScanString(s, i + 2, Append(acc, "\\"))
             [] d = "n" -> ScanString(s, i + 2, Append(acc, "\n"))
             [] d = "u" -> IF i + 5 <= Len(s) /\ SubSeq(s, i + 2, i + 5) = HexOfNonAscii
                           THEN ScanString(s, i + 6, Append(acc, NonAscii))
                           ELSE Bad
             [] OTHER -> Bad
      [] OTHER -> ScanString(s, i + 1, Append(acc, c))

\* the run of digits at i: [n, k, i], the number read, how many digits, the index after
RECURSIVE ScanDigits(_, _, _, _)
ScanDigits(s, i, n, k) == IF IsDigit(At(s, i))
                          THEN ScanDigits(s, i + 1, 10 * n + DigitVal(At(s, i)), k + 1)
                          ELSE [n |-> n, k |-> k, i |-> i]

\* json.scanner NUMBER_RE: an int, or a float when a fraction follows
ScanNumber(s, i) ==
    LET ip == ScanDigits(s, i, 0, 0) IN
    IF ip.k = 0 THEN Bad
    ELSE IF At(s, ip.i) = "."
         THEN LET fp == ScanDigits(s, ip.i + 1, 0, 0) IN
              IF fp.k = 0 THEN Bad
              ELSE Good(JFloat(ip.n * Pow10(fp.k) + fp.n, fp.k), fp.i)
         ELSE Good(JInt(ip.n), ip.i)

RECURSIVE ScanValue(_, _)
RECURSIVE ScanArray(_, _, _)
RECURSIVE ScanObject(_, _, _)

\* json.decoder.JSONArray from the index after "[" (acc: the items so far)
ScanArray(s, i, acc) ==
    LET j == SkipWs(s, i) IN
    IF At(s, j) = "]" /\ acc = <<>> THEN Good(JArr(acc), j + 1)
    ELSE LET r == ScanValue(s, j) IN
         IF ~r.ok THEN Bad
         ELSE LET k == SkipWs(s, r.i) IN
              CASE At(s, k) = "]" -> Good(JArr(Append(acc, r.v)), k + 1)
                [] At(s, k) = "," -> ScanArray(s, k + 1, Append(acc, r.v))
                [] OTHER -> Bad

\* json.decoder.JSONObject from the index after "{" (acc: the pairs so far)
ScanObject(s, i, acc) ==
    LET j == SkipWs(s, i) IN
    IF At(s, j) = "}" /\ acc = <<>> THEN Good(JObj(acc), j + 1)
    ELSE IF At(s, j) # "\"" THEN Bad
    ELSE LET key == ScanString(s, j + 1, <<>>) IN
         IF ~key.ok THEN Bad
         ELSE LET c == SkipWs(s, key.i) IN
              IF At(s, c) # ":" THEN Bad
              ELSE LET r == ScanValue(s, SkipWs(s, c + 1)) IN
                   IF ~r.ok THEN Bad
                   ELSE LET k == SkipWs(s, r.i)
                            pairs == Append(acc, <<key.v.s, r.v>>) IN
                        CASE At(s, k) = "}" -> Good(JObj(pairs), k + 1)
                          [] At(s, k) = "," -> ScanObject(s, k + 1, pairs)
                          [] OTHER -> Bad

\* json.scanner.py_make_scanner._scan_once
ScanValue(s, i) ==
    LET c == At(s, i) IN
    CASE c = "\"" -> ScanString(s, i + 1, <<>>)
      [] c = "{" -> ScanObject(s, i + 1, <<>>)
      [] c = "[" -> ScanArray(s, i + 1, <<>>)
      [] IsDigit(c) -> ScanNumber(s, i)
      [] OTHER -> Bad

\* json.loads(s): the value, when s is one JSON document and nothing else
Loads(s) == LET r == ScanValue(s, SkipWs(s, 1)) IN
            IF r.ok /\ SkipWs(s, r.i) = Len(s) + 1 THEN r ELSE Bad

\* --------------------------------------------------- Python subscripting
PyNone == [t |-> "none"]
\* a global name no executed cell has bound yet
Undef == [t |-> "undef"]

NoError == [type |-> "none", code |-> "", msg |-> <<>>]
\* botocore.exceptions.ClientError: error.response['Error'] = {Code, Message}
ClientError(code, msg) == [type |-> "ClientError", code |-> code, msg |-> msg]
\* any other exception: its class and its argument (the missing key or name)
PyError(type, arg) == [type |-> type, code |-> arg, msg |-> <<>>]

\* KeyError and IndexError are the subclasses of LookupError
IsLookupError(e) == e.type \in {"KeyError", "IndexError"}

HasKey(v, key) == v.t = "obj" /\ \E i \in 1..Len(v.o) : v.o[i][1] = key

\* the value json.loads keeps for a key: the last pair that has it
ValueOf(v, key) == v.o[CHOOSE i \in 1..Len(v.o) :
                          /\ v.o[i][1] = key
                          /\ \A j \in (i + 1)..Len(v.o) : v.o[j][1] # key][2]

\* r is [err, v]: the value so far, or the error already raised
Found(v) == [err |-> NoError, v |-> v]
Failed(e) == [err |-> e, v |-> PyNone]

\* a slip: r.get(key, "") in place of r[key]
GetKeyOrDefault(r, key) ==
    IF r.err # NoError THEN r
    ELSE CASE r.v.t = "obj" -> IF HasKey(r.v, key) THEN Found(ValueOf(r.v, key))
                               ELSE Found(JStr(<<>>))
           [] OTHER -> Failed(PyError("TypeError", key[1]))

\* r[key] for a string key
GetKey(r, key) ==
    IF r.err # NoError THEN r
    ELSE CASE r.v.t = "obj" -> IF HasKey(r.v, key) THEN Found(ValueOf(r.v, key))
                               ELSE Failed(PyError("KeyError", key[1]))
           [] OTHER -> Failed(PyError("TypeError", key[1]))

\* a slip: r[-1]
GetLast(r) ==
    IF r.err # NoError THEN r
    ELSE CASE r.v.t = "arr" -> IF Len(r.v.a) >= 1 THEN Found(r.v.a[Len(r.v.a)])
                               ELSE Failed(PyError("IndexError", "-1"))
           [] OTHER -> Failed(PyError("TypeError", "-1"))

\* r[0]
GetFirst(r) ==
    IF r.err # NoError THEN r
    ELSE CASE r.v.t = "arr" -> IF Len(r.v.a) >= 1 THEN Found(r.v.a[1])
                               ELSE Failed(PyError("IndexError", "0"))
           [] r.v.t = "str" -> IF Len(r.v.s) >= 1 THEN Found(JStr(<<r.v.s[1]>>))
                               ELSE Failed(PyError("IndexError", "0"))
           [] r.v.t = "obj" -> Failed(PyError("KeyError", "0"))
           [] OTHER -> Failed(PyError("TypeError", "0"))

\* response_body["output"]["message"]["content"][0]["text"]
NovaText(response_body) ==
    GetKey(GetFirst(GetKey(GetKey(GetKey(Found(response_body),
        <<"output">>), <<"message">>), <<"content">>)), <<"text">>)

\* response_body["content"][0]["text"]
ClaudeText(response_body) ==
    GetKey(GetFirst(GetKey(Found(response_body), <<"content">>)), <<"text">>)

\* ------------------------------------------------- BeautifulSoup(response)
\* The markup tokens of the model.  The HTML parsers lower-case tag names.
OpenTags == {"<book>", "<BOOK>", "<name>", "<question>"}
CloseTags == {"</book>", "</name>", "</question>"}

TagName(c) == CASE c \in {"<book>", "<BOOK>", "</book>"} -> "book"
                [] c \in {"<name>", "</name>"} -> "name"
                [] c \in {"<question>", "</question>"} -> "question"

\* the text a text token contributes: character references are decoded
CharData(c) == IF c = "&amp;" THEN "&" ELSE c

\* handle_endtag / _popToTag: close the open elements up to and including the
\* most recent one named n; with no such element open the end tag is dropped
PopToTag(st, n, i) ==
    IF \E k \in 1..Len(st.stack) : st.els[st.stack[k]].name = n
    THEN LET k == CHOOSE k \in 1..Len(st.stack) :
                     /\ st.els[st.stack[k]].name = n
                     /\ \A j \in (k + 1)..Len(st.stack) : st.els[st.stack[j]].name # n
             popped == {st.stack[j] : j \in k..Len(st.stack)}
         IN [els |-> [e \in 1..Len(st.els) |->
                        IF e \in popped THEN [st.els[e] EXCEPT !.end = i] ELSE st.els[e]],
             stack |-> SubSeq(st.stack, 1, k - 1)]
    ELSE st

\* handle_starttag: a new element, child of the innermost open one
PushTag(st, n, i) ==
    [els |-> Append(st.els, [name |-> n, start |-> i, end |-> 0]),
     stack |-> Append(st.stack, Len(st.els) + 1)]

\* feed tokens i.. of the markup into the tree builder
RECURSIVE Feed(_, _, _)
Feed(src, i, st) ==
    IF i > Len(src)
    THEN [e \in 1..Len(st.els) |->
            IF st.els[e].end = 0 THEN [st.els[e] EXCEPT !.end = Len(src) + 1] ELSE st.els[e]]
    ELSE CASE src[i] \in OpenTags -> Feed(src, i + 1, PushTag(st, TagName(src[i]), i))
           [] src[i] \in CloseTags -> Feed(src, i + 1, PopToTag(st, TagName(src[i]), i))
           [] OTHER -> Feed(src, i + 1, st)

\* The parsed document: the tokens, and its elements in document order, each
\* with its name and the token positions where it starts and where it ends.
BeautifulSoup(response) ==
    [src |-> response, els |-> Feed(response, 1, [els |-> <<>>, stack |-> <<>>])]

\* soup.find_all(tag): the elements named tag, in document order
MatchesTag(el, tag) == el.name = tag

RECURSIVE FindAllFrom(_, _, _)
FindAllFrom(els, tag, i) ==
    IF i > Len(els) THEN <<>>
    ELSE (IF MatchesTag(els[i], tag) THEN <<els[i]>> ELSE <<>>) \o FindAllFrom(els, tag, i + 1)

\* a slip: the matches in reverse document order
RECURSIVE FindAllReversed(_, _, _)
FindAllReversed(els, tag, i) ==
    IF i > Len(els) THEN <<>>
    ELSE FindAllReversed(els, tag, i + 1) \o (IF MatchesTag(els[i], tag) THEN <<els[i]>> ELSE <<>>)

find_all_reversed(soup, tag) == FindAllReversed(soup.els, tag, 1)

find_all(soup, tag) == FindAllFrom(soup.els, tag, 1)

\* res.get_text(): the strings inside the element, joined
RECURSIVE TextBetween(_, _, _)
TextBetween(src, i, j) ==
    IF i >= j THEN <<>>
    ELSE (IF src[i] \in OpenTags \cup CloseTags THEN <<>> ELSE <<CharData(src[i])>>)
         \o TextBetween(src, i + 1, j)

get_text(soup, res) == TextBetween(soup.src, res.start + 1, res.end)

\* a slip: texts[0]
FirstOf(texts) == texts[1]

\* texts[-1]
LastOf(texts) == texts[Len(texts)]

\* a slip: no match gives the empty string
extract_by_tag_empty_string(response, tag, extract_all) ==
    LET soup == BeautifulSoup(response)
        results == find_all(soup, tag)
        texts == [k \in 1..Len(results) |-> JStr(get_text(soup, results[k]))]
    IN IF results = <<>> THEN JStr(<<>>)
       ELSE IF extract_all THEN JArr(texts)
       ELSE LastOf(texts)

\* a slip: the mode is looked at before the matches, so no match gives []
extract_by_tag_mode_first(response, tag, extract_all) ==
    LET soup == BeautifulSoup(response)
        results == find_all(soup, tag)
        texts == [k \in 1..Len(results) |-> JStr(get_text(soup, results[k]))]
    IN IF extract_all THEN JArr(texts)
       ELSE IF results = <<>> THEN PyNone
       ELSE LastOf(texts)

\* a slip: default mode takes the first match, as soup.find would
extract_by_tag_find_first(response, tag, extract_all) ==
    LET soup == BeautifulSoup(response)
        results == find_all(soup, tag)
        texts == [k \in 1..Len(results) |-> JStr(get_text(soup, results[k]))]
    IN IF results = <<>> THEN PyNone
       ELSE IF extract_all THEN JArr(texts)
       ELSE texts[1]

\* a slip: a last match without text is taken for no match
extract_by_tag_empty_is_absent(response, tag, extract_all) ==
    LET soup == BeautifulSoup(response)
        results == find_all(soup, tag)
        texts == [k \in 1..Len(results) |-> JStr(get_text(soup, results[k]))]
    IN IF results = <<>> THEN PyNone
       ELSE IF LastOf(texts) = JStr(<<>>) THEN PyNone
       ELSE IF extract_all THEN JArr(texts)
       ELSE LastOf(texts)

\* def extract_by_tag(response, tag, extract_all=False)
extract_by_tag(response, tag, extract_all) ==
    LET soup == BeautifulSoup(response)
        results == find_all(soup, tag)
        texts == [k \in 1..Len(results) |-> JStr(get_text(soup, results[k]))]
    IN IF results = <<>> THEN PyNone
       ELSE IF extract_all THEN JArr(texts)
       ELSE LastOf(texts)

\* ------------------------------------------------------ the kernel state
VARIABLES
    boto3_bedrock,  \* global: the client handle the setup cell made
    prompt,         \* global
    prompt_data,    \* global
    query,          \* global
    body,           \* global: the serialized request payload
    modelId,        \* global
    result,         \* global: what bookstore_assistant returned
    site,           \* the cell executed last
    sent,           \* the request that execution gave to invoke_model
    received,       \* the response bytes that execution got back
    thrown,         \* the exception raised inside that execution, caught or not
    content_text,   \* the generated text that execution read from the response
    out,            \* what that execution wrote to the cell output, in order
    raised,         \* the exception that left that execution
    log,            \* the steps that execution took, in order
    tag,            \* the last extract_by_tag call: its tag argument,
    extract_all,    \* its extract_all argument,
    extracted,      \* and what it returned
    busy,           \* the kernel is inside a cell, blocked in invoke_model
    inflight,       \* the invoke_model calls made and not yet ended
    sales_csv       \* the rows of the file sales.csv

globals == <<boto3_bedrock, prompt, prompt_data, query, body, modelId, result>>
lastrun == <<site, sent, received, thrown, content_text, out, raised, log>>
lastcall == <<tag, extract_all, extracted>>
kernel == <<busy, inflight>>
vars == <<globals, lastrun, lastcall, kernel, sales_csv>>

\* ---------------------------------------------------- the literal strings
NovaModelId == JStr(<<"us.amazon.nova-lite-v1:0">>)
ClaudeModelId == JStr(<<"anthropic.claude-3-sonnet-20240229-v1:0">>)
ApplicationJson == JStr(<<"application/json">>)

\* cell 440ca035 (shortened: it has newlines, markup and U+2019)
SummaryPrompt == JStr(<<"\n", "Please provide a summary of the following text.", "\n",
                        "<text>", "With Bedrock", NonAscii, "s serverless experience",
                        "</text>", "\n">>)
\* cell 086af5b4 (shortened)
CodePrompt == JStr(<<"\n", "You have a CSV, sales.csv, with columns:", "\n",
                     "Create a python program", "\n">>)
\* cell 9e4f602b, formatted with the email (shortened)
BookQuery == JStr(<<"\n", "<email>", "\n", "Treasure Island", "\n", "</email>", "\n",
                    "Return the name of the book between <book></book> XML tags.", "\n">>)
SystemPrompt == JStr(<<"You are a helpful assistant that processes orders from a bookstore.">>)

Key(k) == <<k>>

\* ------------------------------------------------------- request builders
UserMessageA(text) ==
    JObj(<< <<Key("role"), JStr(<<"user">>)>>,
            <<Key("content"), JArr(<< JObj(<< <<Key("text"), text>> >>) >>)>> >>)

UserMessageB(text) ==
    JObj(<< <<Key("role"), JStr(<<"user">>)>>,
            <<Key("content"), JArr(<< JObj(<< <<Key("type"), JStr(<<"text">>)>>,
                                              <<Key("text"), text>> >>) >>)>> >>)

\* cell 29d8c668: the dict given to json.dumps
NovaRequest(text) ==
    JObj(<< <<Key("schemaVersion"), JStr(<<"messages-v1">>)>>,
            <<Key("messages"), JArr(<<UserMessageA(text)>>)>>,
            <<Key("inferenceConfig"),
              JObj(<< <<Key("maxTokens"), JInt(300)>>,
                      <<Key("temperature"), JFloat(3, 1)>>,
                      <<Key("topP"), JFloat(1, 1)>>,
                      <<Key("topK"), JInt(20)>> >>)>> >>)

\* cell 7543ec58: the dict given to json.dumps
ClaudeSummaryRequest(text) ==
    JObj(<< <<Key("anthropic_version"), JStr(<<"bedrock-2023-05-31">>)>>,
            <<Key("max_tokens"), JInt(4096)>>,
            <<Key("temperature"), JFloat(5, 1)>>,
            <<Key("top_k"), JInt(250)>>,
            <<Key("top_p"), JFloat(5, 1)>>,
            <<Key("messages"), JArr(<<UserMessageB(text)>>)>> >>)

\* cells 77021ab9 and ffdc8ece: the dict given to json.dumps
ClaudeCodeRequest(text) ==
    JObj(<< <<Key("anthropic_version"), JStr(<<"bedrock-2023-05-31">>)>>,
            <<Key("max_tokens"), JInt(4096)>>,
            <<Key("temperature"), JFloat(1, 1)>>,
            <<Key("top_k"), JInt(250)>>,
            <<Key("top_p"), JFloat(99, 2)>>,
            <<Key("messages"), JArr(<<UserMessageB(text)>>)>> >>)

\* bookstore_assistant: the dict given to json.dumps
BookstoreRequest(text) ==
    JObj(<< <<Key("anthropic_version"), JStr(<<"bedrock-2023-05-31">>)>>,
            <<Key("max_tokens"), JInt(4096)>>,
            <<Key("temperature"), JFloat(1, 1)>>,
            <<Key("top_k"), JInt(250)>>,
            <<Key("top_p"), JFloat(99, 2)>>,
            <<Key("system"), SystemPrompt>>,
            <<Key("messages"), JArr(<<UserMessageB(text)>>)>> >>)

\* body = json.dumps({...})
NovaBody(text) == JStr(Dumps(NovaRequest(text)))
\* a slip: the summarisation cell built with the Nova document
ClaudeSummaryBodyAsNova(text) == JStr(Dumps(NovaRequest(text)))
ClaudeSummaryBody(text) == JStr(Dumps(ClaudeSummaryRequest(text)))
ClaudeCodeBody(text) == JStr(Dumps(ClaudeCodeRequest(text)))
BookstoreBody(text) == JStr(Dumps(BookstoreRequest(text)))

\* ------------------------------------------------ the invocation client
\* What boto3_bedrock.invoke_model can do: return a response whose body is a
\* JSON document, or raise.  The documents have the shape of the model
\* family, whole or cut short at any key of the text path.
ErrorCodes == {"AccessDeniedException", "ThrottlingException"}
ErrorMessages == {<<"You don't have access to the model with the specified model ID.">>,
                  <<"Too many requests, please wait before trying again.">>}
ServiceErrors == {ClientError(c, m) : c \in ErrorCodes, m \in ErrorMessages}
                 \cup {PyError("EndpointConnectionError", "")}

Texts == {<<"<book>", "Treasure Island", "</book>">>,
          <<"\"", "No book is mentioned", NonAscii, "\"", "\n">>}
OtherText == <<"second">>

ItemA(text) == JObj(<< <<Key("text"), JStr(text)>> >>)
ItemB(text) == JObj(<< <<Key("type"), JStr(<<"text">>)>>, <<Key("text"), JStr(text)>> >>)
ToolItem == JObj(<< <<Key("type"), JStr(<<"tool_use">>)>> >>)

NovaResponse(content) ==
    JObj(<< <<Key("output"),
              JObj(<< <<Key("message"),
                        JObj(<< <<Key("role"), JStr(<<"assistant">>)>>,
                                <<Key("content"), JArr(content)>> >>)>> >>)>>,
            <<Key("stopReason"), JStr(<<"end_turn">>)>> >>)

ClaudeResponse(content) ==
    JObj(<< <<Key("type"), JStr(<<"message">>)>>,
            <<Key("role"), JStr(<<"assistant">>)>>,
            <<Key("content"), JArr(content)>>,
            <<Key("stop_reason"), JStr(<<"end_turn">>)>> >>)

ContentsA == {[k \in 1..n |-> IF k = 1 THEN ItemA(t) ELSE ItemA(OtherText)] :
                n \in 0..MaxContent, t \in Texts}
             \cup {<<ToolItem>>}
ContentsB == {[k \in 1..n |-> IF k = 1 THEN ItemB(t) ELSE ItemB(OtherText)] :
                n \in 0..MaxContent, t \in Texts}
             \cup {<<ToolItem>>}

ResponseBodies(family) ==
    IF family = "A"
    THEN {NovaResponse(c) : c \in ContentsA}
         \cup {JObj(<< <<Key("stopReason"), JStr(<<"end_turn">>)>> >>),
               JObj(<< <<Key("output"), JObj(<<>>)>> >>),
               JObj(<< <<Key("output"), JObj(<< <<Key("message"),
                         JObj(<< <<Key("role"), JStr(<<"assistant">>)>> >>)>> >>)>> >>)}
    ELSE {ClaudeResponse(c) : c \in ContentsB}
         \cup {JObj(<< <<Key("type"), JStr(<<"message">>)>> >>)}

\* an outcome of one invoke_model call
Outcomes(family) ==
    {[k |-> "return", body |-> Dumps(rb), err |-> NoError] : rb \in ResponseBodies(family)}
    \cup {[k |-> "raise", body |-> <<>>, err |-> e] : e \in ServiceErrors}

\* ------------------------------------------------------------ cell output
\* print(text): the text and the newline print adds
PyPrint(text) == [fn |-> "print", s |-> text \o <<"\n">>]
\* print(text, end='')
PyPrintNoEnd(text) == [fn |-> "print", s |-> text]
\* display_markdown(Markdown(None)): print gave None to Markdown
DisplayNone == [fn |-> "display_markdown", s |-> <<>>]

IamLink == "https://docs.aws.amazon.com/IAM/latest/UserGuide/troubleshoot_access-denied.html"
BedrockLink == "https://docs.aws.amazon.com/bedrock/latest/userguide/security-iam.html"
Highlight == "ESC[41m"
HighlightOff == "ESC[0m"
\* the blanks a continued source line brings into the literal
Indent == "                "

\* the f-string of cell 42812d1b
Diagnostic(msg) ==
    <<Highlight>> \o msg
    \o <<Indent, "\n",
         "To troubeshoot this issue please refer to the following resources.", Indent, "\n",
         IamLink, Indent, "\n", BedrockLink, HighlightOff, "\n">>

\* --------------------------------------------------- the invocation sites
\* One execution of a site gives a run: what it printed, the exception that
\* left it, the steps it took, the response bytes it got, the text it read
\* from them and the exception raised inside it.
Run(o, r, l, rcv, txt, thr) ==
    [out |-> o, raised |-> r, log |-> l, received |-> rcv, text |-> txt, thrown |-> thr]

\* json.loads(response.get('body').read()) and the subscripts of the family
ParseResponse(family, bytes) ==
    LET rb == Loads(bytes) IN
    IF ~rb.ok THEN Failed(PyError("JSONDecodeError", ""))
    ELSE IF family = "A" THEN NovaText(rb.v) ELSE ClaudeText(rb.v)

\* a slip: the diagnostic is printed and the error raised all the same
ExceptClientErrorThenRaise(e, l, rcv) ==
    IF e.type = "ClientError" /\ e.code = "AccessDeniedException"
    THEN Run(<<PyPrint(Diagnostic(e.msg))>>, e, Append(l, "print"), rcv, Undef, e)
    ELSE Run(<<>>, e, l, rcv, Undef, e)

\* a slip: every ClientError gets the diagnostic, whatever its code
ExceptEveryClientError(e, l, rcv) ==
    IF e.type = "ClientError"
    THEN Run(<<PyPrint(Diagnostic(e.msg))>>, NoError, Append(l, "print"), rcv, Undef, e)
    ELSE Run(<<>>, e, l, rcv, Undef, e)

\* except botocore.exceptions.ClientError as error: ... (cell 42812d1b)
\* e left the try block after the steps l
ExceptClientError(e, l, rcv) ==
    IF e.type = "ClientError"
    THEN IF e.code = "AccessDeniedException"
         THEN Run(<<PyPrint(Diagnostic(e.msg))>>, NoError, Append(l, "print"), rcv, Undef, e)
         ELSE Run(<<>>, e, l, rcv, Undef, e)
    ELSE Run(<<>>, e, l, rcv, Undef, e)

\* a change: a failed call is made once more before the handler sees it
NovaTryRetrying(o) ==
    IF o.k = "raise"
    THEN ExceptClientError(o.err, <<"invoke_model", "invoke_model">>, Undef)
    ELSE LET r == ParseResponse("A", o.body)
             l == <<"invoke_model", "read", "json.loads", "lookup">> IN
         IF r.err # NoError THEN ExceptClientError(r.err, l, JStr(o.body))
         ELSE Run(<<PyPrint(r.v.s)>>, NoError, Append(l, "print"), JStr(o.body), r.v, NoError)

\* the try statement of cell 42812d1b, invoke_model having outcome o
NovaTry(o) ==
    IF o.k = "raise" THEN ExceptClientError(o.err, <<"invoke_model">>, Undef)
    ELSE LET r == ParseResponse("A", o.body)
             l == <<"invoke_model", "read", "json.loads", "lookup">> IN
         IF r.err # NoError THEN ExceptClientError(r.err, l, JStr(o.body))
         ELSE Run(<<PyPrint(r.v.s)>>, NoError, Append(l, "print"), JStr(o.body), r.v, NoError)

\* a change: the Claude sites given the handler of the Nova cell
ClaudeInvokeHandled(o) ==
    IF o.k = "raise" THEN ExceptClientError(o.err, <<"invoke_model">>, Undef)
    ELSE LET r == ParseResponse("B", o.body)
             l == <<"invoke_model", "read", "json.loads", "lookup">> IN
         IF r.err # NoError THEN Run(<<>>, r.err, l, JStr(o.body), Undef, r.err)
         ELSE Run(<<>>, NoError, l, JStr(o.body), r.v, NoError)

\* the three statements of the Claude sites up to the text, no handler
ClaudeInvoke(o) ==
    IF o.k = "raise" THEN Run(<<>>, o.err, <<"invoke_model">>, Undef, Undef, o.err)
    ELSE LET r == ParseResponse("B", o.body)
             l == <<"invoke_model", "read", "json.loads", "lookup">> IN
         IF r.err # NoError THEN Run(<<>>, r.err, l, JStr(o.body), Undef, r.err)
         ELSE Run(<<>>, NoError, l, JStr(o.body), r.v, NoError)

\* print(response_body["content"][0]["text"])
ClaudePrint(o) ==
    LET run == ClaudeInvoke(o) IN
    IF run.text = Undef THEN run
    ELSE [run EXCEPT !.out = <<PyPrint(run.text.s)>>, !.log = Append(run.log, "print")]

\* display_markdown(Markdown(print(response_body["content"][0]["text"], end='')))
ClaudeDisplay(o) ==
    LET run == ClaudeInvoke(o) IN
    IF run.text = Undef THEN run
    ELSE [run EXCEPT !.out = <<PyPrintNoEnd(run.text.s), DisplayNone>>,
                     !.log = run.log \o <<"print", "display_markdown">>]

\* a name read before any cell bound it
NameError(name) ==
    Run(<<>>, PyError("NameError", name), <<>>, Undef, Undef, PyError("NameError", name))

\* every way one execution of a site can run, over the outcomes of its call
OutcomesA == Outcomes("A")
OutcomesB == Outcomes("B")
NovaRuns == {NovaTry(o) : o \in OutcomesA}
ClaudePrintRuns == {ClaudePrint(o) : o \in OutcomesB}
ClaudeDisplayRuns == {ClaudeDisplay(o) : o \in OutcomesB}

\* a change: a client made for the request
RequestWithNewClient(b, m) ==
    [body |-> b, modelId |-> m, accept |-> ApplicationJson,
     contentType |-> ApplicationJson, client |-> boto3_bedrock + 1]

Request(b, m) == [body |-> b, modelId |-> m, accept |-> ApplicationJson,
                  contentType |-> ApplicationJson, client |-> boto3_bedrock]

\* the record of an execution of cell c: the request it made (Undef when it
\* made none), and how it ran
Called(c, req) ==
    /\ site' = c
    /\ sent' = req
    /\ UNCHANGED kernel
    /\ UNCHANGED sales_csv

Ran(run) ==
    /\ received' = run.received
    /\ thrown' = run.thrown
    /\ content_text' = run.text
    /\ out' = run.out
    /\ raised' = run.raised
    /\ log' = run.log

NoCall ==
    /\ tag' = ""
    /\ extract_all' = FALSE
    /\ extracted' = Undef

\* a cell that binds names and neither prints nor calls the client
Quiet(c) == Called(c, Undef) /\ Ran(Run(<<>>, NoError, <<>>, Undef, Undef, NoError))

\* body = json.dumps({... prompt ...}), Amazon Nova
Cell_29d8c668 ==
    /\ Quiet("29d8c668")
    /\ body' = NovaBody(prompt)
    /\ NoCall
    /\ UNCHANGED <<boto3_bedrock, prompt, prompt_data, query, modelId, result>>

\* body = json.dumps({... prompt ...}), Claude 3 Sonnet
Cell_7543ec58 ==
    /\ Quiet("7543ec58")
    /\ body' = ClaudeSummaryBody(prompt)
    /\ NoCall
    /\ UNCHANGED <<boto3_bedrock, prompt, prompt_data, query, modelId, result>>

\* body = json.dumps({... prompt_data ...}), the two code generation cells
CodeBodyCell(c) ==
    /\ Quiet(c)
    /\ body' = ClaudeCodeBody(prompt_data)
    /\ NoCall
    /\ UNCHANGED <<boto3_bedrock, prompt, prompt_data, query, modelId, result>>

Cell_77021ab9 == CodeBodyCell("77021ab9")

Cell_ffdc8ece == CodeBodyCell("ffdc8ece")

\* the Nova cell: modelId is bound, then the try statement runs; reading the
\* unbound name body raises NameError inside the try block
Cell_42812d1b ==
    /\ modelId' = NovaModelId
    /\ IF body = Undef
       THEN /\ Called("42812d1b", Undef)
            /\ Ran(ExceptClientError(PyError("NameError", "body"), <<>>, Undef))
       ELSE /\ Called("42812d1b", Request(body, NovaModelId))
            /\ \E run \in NovaRuns : Ran(run)
    /\ NoCall
    /\ UNCHANGED <<boto3_bedrock, prompt, prompt_data, query, body, result>>

\* a top-level Claude cell: modelId is bound, then invoke, parse and show
ClaudeCell(c, runs) ==
    /\ modelId' = ClaudeModelId
    /\ IF body = Undef
       THEN Called(c, Undef) /\ Ran(NameError("body"))
       ELSE Called(c, Request(body, ClaudeModelId)) /\ \E run \in runs : Ran(run)
    /\ NoCall
    /\ UNCHANGED <<boto3_bedrock, prompt, prompt_data, query, body, result>>

Cell_6b5325ca == ClaudeCell("6b5325ca", ClaudePrintRuns)

Cell_3f07c71c == ClaudeCell("3f07c71c", ClaudeDisplayRuns)

Cell_ae67a4b9 == ClaudeCell("ae67a4b9", ClaudeDisplayRuns)

\* def bookstore_assistant(query): body and modelId are its locals; the
\* request it makes, and how the call runs when invoke_model has outcome o
BookstoreRequest_(q) == Request(BookstoreBody(q), ClaudeModelId)

bookstore_assistant(o) == ClaudeInvoke(o)

BookstoreRuns == {bookstore_assistant(o) : o \in OutcomesB}

\* result = bookstore_assistant(query); print(result)   (cells 24b807c3, 601ffe06)
BookstoreCell(c) ==
    /\ Called(c, BookstoreRequest_(query))
    /\ \E run \in BookstoreRuns :
         IF run.text = Undef
         THEN Ran(run) /\ UNCHANGED result
         ELSE /\ Ran([run EXCEPT !.out = <<PyPrint(run.text.s)>>,
                                 !.log = Append(run.log, "print")])
              /\ result' = run.text
    /\ NoCall
    /\ UNCHANGED <<boto3_bedrock, prompt, prompt_data, query, body, modelId>>

Cell_24b807c3 == BookstoreCell("24b807c3")

Cell_601ffe06 == BookstoreCell("601ffe06")

\* the cells that call extract_by_tag(result, tag[, extract_all=True])
Tags == {"book", "name", "question"}

\* a slip: the call takes the last symbol off the text it was given
ExtractCellConsuming ==
    /\ result # Undef
    /\ \E tg \in Tags, all \in BOOLEAN :
         /\ tag' = tg
         /\ extract_all' = all
         /\ extracted' = extract_by_tag(result.s, tg, all)
    /\ Quiet("extract_by_tag")
    /\ result' = IF result.s = <<>> THEN result
                 ELSE JStr(SubSeq(result.s, 1, Len(result.s) - 1))
    /\ UNCHANGED <<boto3_bedrock, prompt, prompt_data, query, body, modelId>>

ExtractCell ==
    /\ result # Undef
    /\ \E tg \in Tags, all \in BOOLEAN :
         /\ tag' = tg
         /\ extract_all' = all
         /\ extracted' = extract_by_tag(result.s, tg, all)
    /\ Quiet("extract_by_tag")
    /\ UNCHANGED globals

\* --------------------------------------------------- the sales analysis
\* A date is two symbols, "YYYY-MM" and "-DD", so that date[:7] is its
\* first; a product id is one symbol; price and units are integers.
SalesRow(month, day, product, price, units) ==
    [date |-> <<month, day>>, product_id |-> <<product>>, price |-> price,
     units_sold |-> units]

\* data[1:] of cell f20f4756
data ==
    << SalesRow("2023-01", "-01", "P001", 50, 20), SalesRow("2023-01", "-02", "P002", 60, 15),
       SalesRow("2023-01", "-03", "P001", 50, 18), SalesRow("2023-01", "-04", "P003", 70, 30),
       SalesRow("2023-01", "-05", "P001", 50, 25), SalesRow("2023-01", "-06", "P002", 60, 22),
       SalesRow("2023-01", "-07", "P003", 70, 24), SalesRow("2023-01", "-08", "P001", 50, 28),
       SalesRow("2023-01", "-09", "P002", 60, 17), SalesRow("2023-01", "-10", "P003", 70, 29),
       SalesRow("2023-02", "-11", "P001", 50, 23), SalesRow("2023-02", "-12", "P002", 60, 19),
       SalesRow("2023-02", "-13", "P001", 50, 21), SalesRow("2023-02", "-14", "P003", 70, 31),
       SalesRow("2023-03", "-15", "P001", 50, 26), SalesRow("2023-03", "-16", "P002", 60, 20),
       SalesRow("2023-03", "-17", "P003", 70, 33), SalesRow("2023-04", "-18", "P001", 50, 27),
       SalesRow("2023-04", "-19", "P002", 60, 18), SalesRow("2023-04", "-20", "P003", 70, 32),
       SalesRow("2023-04", "-21", "P001", 50, 22), SalesRow("2023-04", "-22", "P002", 60, 16),
       SalesRow("2023-04", "-23", "P003", 70, 34), SalesRow("2023-05", "-24", "P001", 50, 24),
       SalesRow("2023-05", "-25", "P002", 60, 21) >>

HeaderRow == << <<"date">>, <<"product_id">>, <<"price">>, <<"units_sold">> >>

\* csv.writer(csvfile).writerows(data): every field written with str()
WriteRows(rows) ==
    <<HeaderRow>> \o [i \in 1..Len(rows) |->
                        <<rows[i].date, rows[i].product_id, Digits(rows[i].price),
                          Digits(rows[i].units_sold)>>]

\* int(s), and float(s) of a string of digits
ParseInt(s) == ScanDigits(s, 1, 0, 0).n

\* defaultdict(int): d[k] += x
AddTo(d, k, x) ==
    IF k \in DOMAIN d THEN [d EXCEPT ![k] = @ + x]
    ELSE [j \in DOMAIN d \cup {k} |-> IF j = k THEN x ELSE d[j]]

\* the names of cell 6f2c28aa before its loop
SalesStart ==
    [revenue |-> 0, monthly_revenue |-> <<>>, product_revenue |-> <<>>,
     max_revenue |-> 0, max_revenue_date |-> <<>>, max_revenue_product |-> <<>>]

\* one pass of `for row in reader:`
SalesLoopBody(st, row) ==
    LET price == ParseInt(row[3])
        units == ParseInt(row[4])
        st1 == [st EXCEPT !.revenue = @ + price * units,
                          !.product_revenue = AddTo(@, row[2], price * units),
                          !.monthly_revenue = AddTo(@, <<row[1][1]>>, price * units)]
    IN IF st1.revenue > st1.max_revenue
       THEN [st1 EXCEPT !.max_revenue = st1.revenue,
                        !.max_revenue_date = row[1],
                        !.max_revenue_product = row[2]]
       ELSE st1

\* next(reader), then the loop over the rows from the i-th on
RECURSIVE SalesLoop(_, _, _)
SalesLoop(st, file, i) ==
    IF i > Len(file) THEN st ELSE SalesLoop(SalesLoopBody(st, file[i]), file, i + 1)

\* plt.bar(months, values) ... plt.show()
PltShow(monthly) == [fn |-> "plt.show", s |-> <<>>, bars |-> monthly]

\* what cell 6f2c28aa writes to its output on the file
SalesOutput(file) ==
    LET st == SalesLoop(SalesStart, file, 2) IN
    << PltShow(st.monthly_revenue),
       PyPrint(<<"Total Revenue:", " ">> \o FloatRepr(st.revenue * 10, 1)),
       PyPrint(<<"Product with max revenue:", " ">> \o st.max_revenue_product),
       PyPrint(<<"Date with max revenue:", " ">> \o st.max_revenue_date) >>

\* a cell that calls neither the client nor extract_by_tag, and prints o
Printing(c, o) ==
    /\ site' = c
    /\ sent' = Undef
    /\ Ran(Run(o, NoError, <<>>, Undef, Undef, NoError))
    /\ NoCall
    /\ UNCHANGED kernel
    /\ UNCHANGED globals

\* cell f20f4756: sales.csv is written
Cell_f20f4756 ==
    /\ Printing("f20f4756", <<PyPrint(<<"sales.csv has been created!">>)>>)
    /\ sales_csv' = WriteRows(data)

\* cell 6f2c28aa: the sample analysis program
Cell_6f2c28aa ==
    /\ Printing("6f2c28aa", SalesOutput(sales_csv))
    /\ UNCHANGED sales_csv

\* ------------------------------------------------------ specifications
\* the output record of a kernel that has executed none of the cells below
Fresh ==
    /\ site = ""
    /\ sent = Undef
    /\ received = Undef
    /\ thrown = NoError
    /\ content_text = Undef
    /\ out = <<>>
    /\ raised = NoError
    /\ log = <<>>
    /\ tag = ""
    /\ extract_all = FALSE
    /\ extracted = Undef
    /\ busy = FALSE
    /\ inflight = 0

\* The kernel after the setup cell, the cells that bind prompt, prompt_data
\* and query, and the two def cells have run; body is not bound yet.
Init ==
    /\ boto3_bedrock = 1
    /\ prompt = SummaryPrompt
    /\ prompt_data = CodePrompt
    /\ query = BookQuery
    /\ body = Undef
    /\ modelId = Undef
    /\ result = Undef
    /\ sales_csv = WriteRows(data)
    /\ Fresh

Next ==
    \/ Cell_29d8c668
    \/ Cell_42812d1b
    \/ Cell_7543ec58
    \/ Cell_6b5325ca
    \/ Cell_77021ab9
    \/ Cell_3f07c71c
    \/ Cell_ffdc8ece
    \/ Cell_ae67a4b9
    \/ Cell_24b807c3
    \/ Cell_601ffe06
    \/ ExtractCell

Spec == Init /\ [][Next]_vars

\* all strings of at most n symbols of the alphabet
Strings(alphabet, n) == UNION {[1..k -> alphabet] : k \in 0..n}

\* The request builders on every short prompt: the texts bound to prompt,
\* prompt_data and query hold the characters json has to escape.
JsonAlphabet == {"n", "\"", "\\", "\n", NonAscii}

InitJson ==
    /\ boto3_bedrock = 1
    /\ \E x \in Strings(JsonAlphabet, MaxPromptLen) :
         /\ prompt = JStr(x)
         /\ prompt_data = JStr(x)
         /\ query = JStr(x)
    /\ body = Undef
    /\ modelId = Undef
    /\ result = Undef
    /\ sales_csv = WriteRows(data)
    /\ Fresh

NextJson ==
    \/ Cell_29d8c668
    \/ Cell_7543ec58
    \/ Cell_77021ab9
    \/ Cell_ffdc8ece
    \/ Cell_24b807c3

SpecJson == InitJson /\ [][NextJson]_vars

\* extract_by_tag on every short text bookstore_assistant can have returned
MarkupAlphabet == {"<book>", "</book>", "<BOOK>", "<name>", "T", "&amp;"}

InitTag ==
    /\ boto3_bedrock = 1
    /\ prompt = SummaryPrompt
    /\ prompt_data = CodePrompt
    /\ query = BookQuery
    /\ body = Undef
    /\ modelId = Undef
    /\ result \in {JStr(x) : x \in Strings(MarkupAlphabet, MaxLen)}
    /\ sales_csv = WriteRows(data)
    /\ Fresh

NextTag == ExtractCell

SpecTag == InitTag /\ [][NextTag]_vars

\* --------------------------------------------- the cells, top to bottom
\* Each cell is executed once, in the order of the notebook; the cell that
\* ran last tells which one is next.
After(c) == site = c

\* a top-level Claude cell, run after the cell before it
ThenClaude(before, c, runs) == After(before) /\ ClaudeCell(c, runs)

NextTopDown ==
    \/ After("") /\ Cell_29d8c668
    \/ After("29d8c668") /\ Cell_42812d1b
    \/ After("42812d1b") /\ Cell_7543ec58
    \/ ThenClaude("7543ec58", "6b5325ca", ClaudePrintRuns)
    \/ After("6b5325ca") /\ Cell_77021ab9
    \/ ThenClaude("77021ab9", "3f07c71c", ClaudeDisplayRuns)
    \/ After("3f07c71c") /\ Cell_ffdc8ece
    \/ ThenClaude("ffdc8ece", "ae67a4b9", ClaudeDisplayRuns)
    \/ After("ae67a4b9") /\ Cell_24b807c3
    \/ After("24b807c3") /\ Cell_601ffe06
    \/ After("601ffe06") /\ ExtractCell

SpecTopDown == Init /\ [][NextTopDown]_vars

\* ------------------------------------------- the analysis on any file
\* sales.csv holds the fixture, or any few rows of positive price and units
Months == {"2023-01", "2023-02"}
Days == {"-01", "-02"}
Products == {"P001", "P002"}
Prices == {1, 2}
Units == {1, 3}

SmallRows == {SalesRow(m, d, p, pr, u) : m \in Months, d \in Days, p \in Products,
                                         pr \in Prices, u \in Units}

SalesFiles ==
    {WriteRows(data)} \cup {WriteRows(rows) : rows \in Strings(SmallRows, MaxRows)}

InitSales ==
    /\ boto3_bedrock = 1
    /\ prompt = SummaryPrompt
    /\ prompt_data = CodePrompt
    /\ query = BookQuery
    /\ body = Undef
    /\ modelId = Undef
    /\ result = Undef
    /\ sales_csv \in SalesFiles
    /\ Fresh

NextSales ==
    \/ Cell_f20f4756
    \/ Cell_6f2c28aa

SpecSales == InitSales /\ [][NextSales]_vars

\* ---------------------------------------- the invocation, step by step
\* The cells once more, with the call of an invocation site in two steps:
\* the statement that calls invoke_model, at which the kernel blocks, and
\* the end of that call with all that follows it in the cell.

\* a slip: the call is handed off and the cell goes on without its answer
StartWithoutWaiting(c, req) ==
    /\ site' = c
    /\ sent' = req
    /\ Ran(Run(<<>>, NoError, <<"invoke_model">>, Undef, Undef, NoError))
    /\ NoCall
    /\ busy' = FALSE
    /\ inflight' = inflight + 1
    /\ UNCHANGED sales_csv

\* response = boto3_bedrock.invoke_model(...): the call is made and the
\* kernel waits in it
Start(c, req) ==
    /\ site' = c
    /\ sent' = req
    /\ Ran(Run(<<>>, NoError, <<"invoke_model">>, Undef, Undef, NoError))
    /\ NoCall
    /\ busy' = TRUE
    /\ inflight' = inflight + 1
    /\ UNCHANGED sales_csv

\* a top-level invocation cell up to its call; m is the model id it binds
BeginCell(c, m) ==
    /\ ~busy
    /\ body # Undef
    /\ modelId' = m
    /\ Start(c, Request(body, m))
    /\ UNCHANGED <<boto3_bedrock, prompt, prompt_data, query, body, result>>

BeginNova == BeginCell("42812d1b", NovaModelId)

BeginClaude == \E c \in {"6b5325ca", "3f07c71c", "ae67a4b9"} : BeginCell(c, ClaudeModelId)

\* a bookstore cell up to the call inside bookstore_assistant
BeginBookstore ==
    /\ ~busy
    /\ \E c \in {"24b807c3", "601ffe06"} : Start(c, BookstoreRequest_(query))
    /\ UNCHANGED globals

\* print(result) of the bookstore cells, after a call that returned a text
BookstorePrinted(run) ==
    IF run.text = Undef THEN run
    ELSE [run EXCEPT !.out = <<PyPrint(run.text.s)>>, !.log = Append(run.log, "print")]

\* the call returns or raises, and the cell runs on to its end as run
Finish(run) ==
    /\ inflight > 0
    /\ Ran(run)
    /\ busy' = FALSE
    /\ inflight' = inflight - 1
    /\ UNCHANGED sales_csv
    /\ UNCHANGED <<site, sent, lastcall>>
    /\ UNCHANGED <<boto3_bedrock, prompt, prompt_data, query, body, modelId>>

\* the end of the call of one of the top-level cells cs, which run as runs
EndCell(cs, runs) ==
    /\ site \in cs
    /\ \E run \in runs : Finish(run)
    /\ UNCHANGED result

EndNova == EndCell({"42812d1b"}, NovaRuns)

EndClaudePrint == EndCell({"6b5325ca"}, ClaudePrintRuns)

EndClaudeDisplay == EndCell({"3f07c71c", "ae67a4b9"}, ClaudeDisplayRuns)

\* bookstore_assistant returns or raises; result is bound and printed
EndBookstoreCell(runs) ==
    /\ site \in {"24b807c3", "601ffe06"}
    /\ \E run \in runs :
         /\ Finish(BookstorePrinted(run))
         /\ result' = IF run.text = Undef THEN result ELSE run.text

EndBookstore == EndBookstoreCell(BookstoreRuns)

\* the cells that make no call, run when the kernel is free
OtherCell ==
    /\ ~busy
    /\ \/ Cell_29d8c668
       \/ Cell_7543ec58
       \/ ExtractCell

NextSteps ==
    \/ BeginNova
    \/ BeginClaude
    \/ BeginBookstore
    \/ EndNova
    \/ EndClaudePrint
    \/ EndClaudeDisplay
    \/ EndBookstore
    \/ OtherCell

SpecSteps == Init /\ [][NextSteps]_vars

\* ================================================================ claims
\* --------------------------------------------------- the tag extractor
\* The elements of the last extract_by_tag call's text that carry its tag:
\* taken from the parsed document, and counted on the tokens themselves
\* (every start tag opens one element, named by the lower-cased tag name).
Range(f) == {f[i] : i \in DOMAIN f}

Matching == {e \in Range(BeautifulSoup(result.s).els) : e.name = tag}

StartTagsOf(src, tg) ==
    {i \in 1..Len(src) :
        \/ tg = "book" /\ src[i] \in {"<book>", "<BOOK>"}
        \/ tg = "name" /\ src[i] = "<name>"
        \/ tg = "question" /\ src[i] = "<question>"}

TextOf(e) == JStr(get_text(BeautifulSoup(result.s), e))

\* how many matching elements start at or before e: its place in document order
PlaceOf(e) == Cardinality({f \in Matching : f.start <= e.start})

Called_extract_by_tag == site = "extract_by_tag"

\* C1: in default mode, on a text with at least one element of the tag,
\* extract_by_tag returns the text content of the element that starts last in
\* the document; "<book>Treasure Island</book>" gives "Treasure Island".
C1_DefaultReturnsLast ==
    /\ (Called_extract_by_tag /\ ~extract_all /\ StartTagsOf(result.s, tag) # {})
          => /\ Matching # {}
             /\ \A e \in Matching :
                  (\A f \in Matching : f.start <= e.start) => extracted = TextOf(e)
    /\ extract_by_tag(<<"<book>", "Treasure Island", "</book>">>, "book", FALSE)
          = JStr(<<"Treasure Island">>)

\* two elements of the tag with different contents, and the last one returned
C1_Witness ==
    /\ Called_extract_by_tag /\ ~extract_all
    /\ \E e, f \in Matching :
         /\ e.start < f.start
         /\ TextOf(e) # TextOf(f)
         /\ \A g \in Matching : g.start <= f.start
         /\ extracted = TextOf(f)

\* C2: with extract_all=True, on a text with n >= 1 elements of the tag,
\* extract_by_tag returns a list of exactly n texts, the k-th being the
\* content of the k-th element in document order.
C2_AllInDocumentOrder ==
    (Called_extract_by_tag /\ extract_all /\ StartTagsOf(result.s, tag) # {})
       => /\ extracted.t = "arr"
          /\ Len(extracted.a) = Cardinality(StartTagsOf(result.s, tag))
          /\ Cardinality(Matching) = Len(extracted.a)
          /\ \A e \in Matching : extracted.a[PlaceOf(e)] = TextOf(e)

\* three elements of the tag, with contents that are not all the same
C2_Witness ==
    /\ Called_extract_by_tag /\ extract_all
    /\ Cardinality(Matching) >= 3
    /\ extracted.t = "arr"
    /\ Len(extracted.a) = 3
    /\ extracted.a[1] # extracted.a[3]

\* C3: in default mode, on a text with no element of the tag, extract_by_tag
\* returns None and raises nothing.
C3_AbsentIsNone ==
    (Called_extract_by_tag /\ ~extract_all /\ StartTagsOf(result.s, tag) = {})
       => extracted = PyNone /\ raised = NoError /\ thrown = NoError

\* a text that has elements, none of them of the tag asked for
C3_Witness ==
    /\ Called_extract_by_tag /\ ~extract_all /\ tag = "book"
    /\ StartTagsOf(result.s, "book") = {}
    /\ StartTagsOf(result.s, "name") # {}
    /\ extracted = PyNone

\* C4, as stated: with extract_all=True, on a text with no element of the
\* tag, extract_by_tag returns an empty list.
C4_Original ==
    (Called_extract_by_tag /\ extract_all /\ StartTagsOf(result.s, tag) = {})
       => extracted = JArr(<<>>)

\* C4, amended: with extract_all=True, on a text with no element of the tag,
\* extract_by_tag returns None, as it does in default mode; an empty list is
\* never returned.
C4_AbsentIsNoneInBothModes ==
    /\ (Called_extract_by_tag /\ extract_all /\ StartTagsOf(result.s, tag) = {})
          => extracted = PyNone /\ raised = NoError
    /\ Called_extract_by_tag => extracted # JArr(<<>>)

C4_Witness ==
    /\ Called_extract_by_tag /\ extract_all /\ tag = "book"
    /\ StartTagsOf(result.s, "book") = {}
    /\ StartTagsOf(result.s, "name") # {}
    /\ extracted = PyNone

\* ------------------------------------------------ the invocation sites
NovaSite == "42812d1b"
PrintSite == "6b5325ca"
DisplaySites == {"3f07c71c", "ae67a4b9"}
BookstoreSites == {"24b807c3", "601ffe06"}
ClaudeSites == {PrintSite} \cup DisplaySites \cup BookstoreSites

\* the last execution called invoke_model and the call raised
InvokeRaised == log # <<>> /\ log[1] = "invoke_model" /\ received = Undef

AccessDenied(e) == e.type = "ClientError" /\ e.code = "AccessDeniedException"

Contains(s, sub) == \E i \in 1..(Len(s) - Len(sub) + 1) : SubSeq(s, i, i + Len(sub) - 1) = sub

\* one print, of a highlighted text that holds msg and the two links
IsDiagnostic(o, msg) ==
    /\ Len(o) = 1
    /\ o[1].fn = "print"
    /\ o[1].s[1] = Highlight
    /\ Contains(o[1].s, msg)
    /\ Contains(o[1].s, <<IamLink>>)
    /\ Contains(o[1].s, <<BedrockLink>>)
    /\ Contains(o[1].s, <<HighlightOff>>)

\* C5: in the Nova cell, an AccessDeniedException ClientError raised by
\* invoke_model is caught: one highlighted diagnostic with the service's
\* message and the two links is printed, nothing is re-raised, no generated
\* text is read or printed, and the cell finishes normally.
C5_NovaAccessDeniedHandled ==
    (site = NovaSite /\ InvokeRaised /\ AccessDenied(thrown))
       => /\ raised = NoError
          /\ IsDiagnostic(out, thrown.msg)
          /\ content_text = Undef
          /\ log = <<"invoke_model", "print">>

C5_Witness ==
    /\ site = NovaSite /\ InvokeRaised /\ AccessDenied(thrown)
    /\ raised = NoError
    /\ IsDiagnostic(out, <<"You don't have access to the model with the specified model ID.">>)

\* C6: any other failure of invoke_model leaves the execution as it was
\* raised: in the Nova cell a ClientError with another code, and an error
\* that is no ClientError, propagate unchanged with nothing printed; at the
\* Claude sites every error propagates unchanged with nothing printed.
C6_OtherFailuresPropagate ==
    /\ (site = NovaSite /\ InvokeRaised /\ ~AccessDenied(thrown))
          => thrown # NoError /\ raised = thrown /\ out = <<>>
    /\ (site = NovaSite /\ thrown.type \notin {"none", "ClientError"})
          => raised = thrown /\ out = <<>>
    /\ (site \in ClaudeSites /\ InvokeRaised)
          => thrown # NoError /\ raised = thrown /\ out = <<>>

\* the Nova cell let a ThrottlingException through
C6_Witness ==
    /\ site = NovaSite /\ InvokeRaised
    /\ thrown.type = "ClientError" /\ thrown.code = "ThrottlingException"
    /\ raised = thrown
    /\ out = <<>>

\* whether the decoded response has every key of its family's text path
HasNovaPath(doc) ==
    /\ HasKey(doc, <<"output">>)
    /\ HasKey(ValueOf(doc, <<"output">>), <<"message">>)
    /\ LET message == ValueOf(ValueOf(doc, <<"output">>), <<"message">>) IN
       /\ HasKey(message, <<"content">>)
       /\ ValueOf(message, <<"content">>).a # <<>>
       /\ HasKey(ValueOf(message, <<"content">>).a[1], <<"text">>)

HasClaudePath(doc) ==
    /\ HasKey(doc, <<"content">>)
    /\ ValueOf(doc, <<"content">>).a # <<>>
    /\ HasKey(ValueOf(doc, <<"content">>).a[1], <<"text">>)

PathMissing ==
    /\ received # Undef
    /\ \/ site = NovaSite /\ ~HasNovaPath(Loads(received.s).v)
       \/ site \in ClaudeSites /\ ~HasClaudePath(Loads(received.s).v)

\* C7: when the response lacks a key, or the first content element, of the
\* text path of its family, the execution ends in a lookup error (KeyError or
\* IndexError) and no text is read, printed or returned; in the Nova cell
\* the handler of the try statement does not swallow it.
C7_MissingKeyIsLookupError ==
    PathMissing => /\ IsLookupError(raised)
                   /\ raised = thrown
                   /\ out = <<>>
                   /\ content_text = Undef

\* the Nova cell got a response with an empty content list
C7_Witness ==
    /\ site = NovaSite /\ PathMissing
    /\ HasKey(Loads(received.s).v, <<"output">>)
    /\ raised = PyError("IndexError", "0")

\* C8, as stated: at every invocation site an access-denied error of
\* invoke_model is caught, shown as a diagnostic with the links, and not
\* re-raised.
C8_Original ==
    (site \in {NovaSite} \cup ClaudeSites /\ InvokeRaised /\ AccessDenied(thrown))
       => raised = NoError /\ IsDiagnostic(out, thrown.msg)

\* C8, amended: the access-denied error is caught and shown as a diagnostic
\* in the Nova cell only; at the Claude sites (the summarisation cell, the two
\* code generation cells, bookstore_assistant) it is not caught: it leaves
\* the execution unchanged, with nothing printed.
C8_AccessDeniedHandledInNovaCellOnly ==
    /\ (site = NovaSite /\ InvokeRaised /\ AccessDenied(thrown))
          => raised = NoError /\ IsDiagnostic(out, thrown.msg)
    /\ (site \in ClaudeSites /\ InvokeRaised /\ AccessDenied(thrown))
          => raised = thrown /\ out = <<>> /\ content_text = Undef

\* bookstore_assistant let an AccessDeniedException through
C8_Witness ==
    /\ site \in BookstoreSites /\ InvokeRaised /\ AccessDenied(thrown)
    /\ raised = thrown
    /\ out = <<>>

\* ------------------------------------------------ the response parser
\* the documents of a family that have its text path, as the service sends
\* them, each with the text its first content element holds
FirstTexts(family) ==
    IF family = "A"
    THEN {[bytes |-> JStr(Dumps(NovaResponse(c))), first |-> ValueOf(c[1], <<"text">>),
           n |-> Len(c)] : c \in {c \in ContentsA : c # <<>> /\ c[1] # ToolItem}}
    ELSE {[bytes |-> JStr(Dumps(ClaudeResponse(c))), first |-> ValueOf(c[1], <<"text">>),
           n |-> Len(c)] : c \in {c \in ContentsB : c # <<>> /\ c[1] # ToolItem}}

FirstTextsA == FirstTexts("A")
FirstTextsB == FirstTexts("B")

\* how a site shows the text it read
Shown(c, txt) == IF c \in DisplaySites THEN <<PyPrintNoEnd(txt.s), DisplayNone>>
                 ELSE <<PyPrint(txt.s)>>

\* C10: when the response has the text path of its family, the site reads
\* exactly the text of the first content element, whatever elements follow,
\* raises nothing, and shows (bookstore_assistant: returns) that text.
C10_ParserReadsFirstText ==
    /\ \A d \in FirstTextsA :
         (site = NovaSite /\ received = d.bytes)
            => content_text = d.first /\ raised = NoError /\ out = Shown(site, d.first)
    /\ \A d \in FirstTextsB :
         (site \in ClaudeSites /\ received = d.bytes)
            => /\ content_text = d.first
               /\ raised = NoError
               /\ out = Shown(site, d.first)
               /\ site \in BookstoreSites => result = d.first

\* a Nova response of two content elements: the first one's text was read
C10_Witness ==
    \E d \in FirstTextsA :
        /\ d.n = 2
        /\ d.first # JStr(OtherText)
        /\ Contains(d.first.s, <<NonAscii>>)
        /\ site = NovaSite /\ received = d.bytes
        /\ content_text = d.first

\* ------------------------------------------------ the request builders
KeysOf(obj) == [i \in 1..Len(obj.o) |-> obj.o[i][1][1]]

\* messages[0]["content"][0] of a decoded payload
FirstContentItem(doc) ==
    ValueOf(ValueOf(doc, <<"messages">>).a[1], <<"content">>).a[1]

OneUserMessage(doc) ==
    /\ Len(ValueOf(doc, <<"messages">>).a) = 1
    /\ KeysOf(ValueOf(doc, <<"messages">>).a[1]) = <<"role", "content">>
    /\ ValueOf(ValueOf(doc, <<"messages">>).a[1], <<"role">>) = JStr(<<"user">>)
    /\ Len(ValueOf(ValueOf(doc, <<"messages">>).a[1], <<"content">>).a) = 1

\* the payload decodes to a Family A document of exactly this text
DecodesToNova(payload, txt) ==
    LET d == Loads(payload.s) IN
    /\ d.ok
    /\ KeysOf(d.v) = <<"schemaVersion", "messages", "inferenceConfig">>
    /\ ValueOf(d.v, <<"schemaVersion">>) = JStr(<<"messages-v1">>)
    /\ OneUserMessage(d.v)
    /\ FirstContentItem(d.v) = JObj(<< <<<<"text">>, txt>> >>)
    /\ ValueOf(d.v, <<"inferenceConfig">>)
         = JObj(<< <<<<"maxTokens">>, JInt(300)>>, <<<<"temperature">>, JFloat(3, 1)>>,
                   <<<<"topP">>, JFloat(1, 1)>>, <<<<"topK">>, JInt(20)>> >>)

\* the payload decodes to a Family B document of exactly this text and
\* these parameters (temperature tm/10, top_p p / 10^pe)
DecodesToClaude(payload, txt, keys, tm, p, pe) ==
    LET d == Loads(payload.s) IN
    /\ d.ok
    /\ KeysOf(d.v) = keys
    /\ ValueOf(d.v, <<"anthropic_version">>) = JStr(<<"bedrock-2023-05-31">>)
    /\ ValueOf(d.v, <<"max_tokens">>) = JInt(4096)
    /\ ValueOf(d.v, <<"temperature">>) = JFloat(tm, 1)
    /\ ValueOf(d.v, <<"top_k">>) = JInt(250)
    /\ ValueOf(d.v, <<"top_p">>) = JFloat(p, pe)
    /\ OneUserMessage(d.v)
    /\ FirstContentItem(d.v) = JObj(<< <<<<"type">>, JStr(<<"text">>)>>, <<<<"text">>, txt>> >>)

ClaudeKeys == <<"anthropic_version", "max_tokens", "temperature", "top_k", "top_p", "messages">>
BookstoreKeys == <<"anthropic_version", "max_tokens", "temperature", "top_k", "top_p",
                   "system", "messages">>

\* C9: the payload every builder serializes decodes back to the prompt text
\* unchanged and to exactly the parameters of the builder, none added and
\* none dropped; the Nova builder's inferenceConfig decodes to exactly
\* {maxTokens: 300, temperature: 0.3, topP: 0.1, topK: 20}.
C9_PayloadRoundTrip ==
    /\ site = "29d8c668" => DecodesToNova(body, prompt)
    /\ site = "7543ec58" => DecodesToClaude(body, prompt, ClaudeKeys, 5, 5, 1)
    /\ site \in {"77021ab9", "ffdc8ece"}
          => DecodesToClaude(body, prompt_data, ClaudeKeys, 1, 99, 2)
    /\ site \in BookstoreSites
          => /\ DecodesToClaude(sent.body, query, BookstoreKeys, 1, 99, 2)
             /\ ValueOf(Loads(sent.body.s).v, <<"system">>) = SystemPrompt

\* the Nova builder on a prompt of a backslash and an n, which must not come
\* back as a newline
C9_Witness ==
    /\ site = "29d8c668"
    /\ prompt = JStr(<<"\\", "n">>)
    /\ DecodesToNova(body, prompt)
    /\ Contains(body.s, <<"\\", "\\", "n">>)

InvocationSites == {NovaSite} \cup ClaudeSites

\* how many times the steps l called invoke_model
CallsOf(l) == Cardinality({i \in DOMAIN l : l[i] = "invoke_model"})

\* C12: no retry: every execution of an invocation site that gets as far as
\* its invoke_model statement calls invoke_model exactly once, whether the
\* call returns, raises an error that propagates, or raises the
\* access-denied error the Nova cell catches; an execution that stops before
\* that statement (the global body is unbound) calls it not at all.
\* bookstore_assistant, which builds its own body, always calls it once.
C12_NoRetry ==
    site \in InvocationSites
       => /\ CallsOf(log) <= 1
          /\ sent # Undef => CallsOf(log) = 1 /\ log[1] = "invoke_model"
          /\ sent = Undef => raised = PyError("NameError", "body") /\ CallsOf(log) = 0
          /\ site \in BookstoreSites => CallsOf(log) = 1

\* the Nova cell after the access-denied error it caught: one call, then
\* the print of the diagnostic
C12_Witness ==
    /\ site = NovaSite
    /\ AccessDenied(thrown) /\ raised = NoError
    /\ CallsOf(log) = 1
    /\ log = <<"invoke_model", "print">>

\* ---------------------------------------------- one call at a time
Steps(l) == {l[i] : i \in DOMAIN l}

\* C13: invocations are synchronous and never overlap: at most one call of
\* invoke_model is in flight; while one is, the kernel is inside the cell
\* that made it and the only step taken is the end of that call, in that
\* cell; the response is read, decoded and looked into only in an execution
\* whose call has returned a response, never in one whose call raised.
C13_Synchronous ==
    /\ [](/\ inflight <= 1
          /\ inflight = 1 => busy /\ log = <<"invoke_model">> /\ sent # Undef
          /\ (Steps(log) \cap {"read", "json.loads", "lookup"} # {})
                => /\ inflight = 0
                   /\ received # Undef
                   /\ SubSeq(log, 1, 4) = <<"invoke_model", "read", "json.loads", "lookup">>)
    /\ [][inflight = 1 => inflight' = 0 /\ site' = site /\ sent' = sent]_vars

\* the call of bookstore_assistant is in flight and the kernel waits in it
C13_Witness ==
    /\ inflight = 1 /\ busy
    /\ site = "601ffe06"
    /\ sent = BookstoreRequest_(query)
    /\ log = <<"invoke_model">>

\* ------------------------------------------------ the client handle
\* C14: the handle boto3_bedrock is the one the setup cell made, in every
\* state; every request of every site is made on that handle; and no step,
\* whether its invocation succeeds or fails, binds boto3_bedrock again.
C14_OneSharedHandle ==
    /\ [](/\ boto3_bedrock = 1
          /\ (site \in InvocationSites /\ sent # Undef) => sent.client = boto3_bedrock)
    /\ [][boto3_bedrock' = boto3_bedrock]_vars

\* bookstore_assistant called on the handle after a cell's call on it failed
C14_Witness ==
    /\ site \in BookstoreSites
    /\ sent.client = boto3_bedrock
    /\ raised # NoError
    /\ modelId = NovaModelId
    /\ body # Undef

\* ------------------------------------------------ payload and model id
\* the shape of a decoded payload: its keys in order, one user message, and
\* the keys of that message's one content item
IsFamilyA(doc) ==
    /\ KeysOf(doc) = <<"schemaVersion", "messages", "inferenceConfig">>
    /\ OneUserMessage(doc)
    /\ KeysOf(FirstContentItem(doc)) = <<"text">>
    /\ ValueOf(FirstContentItem(doc), <<"text">>).t = "str"
    /\ KeysOf(ValueOf(doc, <<"inferenceConfig">>))
         = <<"maxTokens", "temperature", "topP", "topK">>

IsFamilyB(doc) ==
    /\ KeysOf(doc) \in {ClaudeKeys, BookstoreKeys}
    /\ OneUserMessage(doc)
    /\ KeysOf(FirstContentItem(doc)) = <<"type", "text">>
    /\ ValueOf(FirstContentItem(doc), <<"type">>) = JStr(<<"text">>)
    /\ ValueOf(FirstContentItem(doc), <<"text">>).t = "str"

\* the request sent pairs its model id with a payload of that id's family
FamilyMatches(req) ==
    LET d == Loads(req.body.s) IN
    /\ d.ok
    /\ req.modelId = NovaModelId => IsFamilyA(d.v)
    /\ req.modelId = ClaudeModelId => IsFamilyB(d.v)

\* C15: when the cells are executed once each from top to bottom, every
\* invocation site makes its call, with the model id of its family, and
\* the payload sent is of that family: Family A to the Nova id, Family B to
\* the Claude id, with "system" in it at bookstore_assistant and nowhere
\* else.
C15_TopDownSchemaMatches ==
    site \in InvocationSites
       => /\ sent # Undef
          /\ sent.modelId = (IF site = NovaSite THEN NovaModelId ELSE ClaudeModelId)
          /\ FamilyMatches(sent)
          /\ site \in ClaudeSites
                => (HasKey(Loads(sent.body.s).v, <<"system">>) <=> site \in BookstoreSites)

\* the second code generation cell has sent its Family B payload
C15_Witness ==
    /\ site = "ae67a4b9"
    /\ sent.modelId = ClaudeModelId
    /\ sent.body = ClaudeCodeBody(prompt_data)
    /\ FamilyMatches(sent)
    /\ KeysOf(Loads(sent.body.s).v) = ClaudeKeys

TopLevelSites == {NovaSite, PrintSite} \cup DisplaySites

\* C18, as stated: in any order and repetition of cell executions, a
\* top-level invocation cell that finds the global body bound sends a
\* payload of the family of the model id it uses: never Family B to the
\* Nova id, never Family A to the Claude id.
C18_Original ==
    (site \in TopLevelSites /\ sent # Undef) => FamilyMatches(sent)

\* the Nova cell, run after a Claude body cell, has sent the Nova model id
\* a Family B payload
C18_Witness ==
    /\ site = NovaSite
    /\ sent # Undef
    /\ sent.modelId = NovaModelId
    /\ sent.body = ClaudeSummaryBody(prompt)
    /\ IsFamilyB(Loads(sent.body.s).v)
    /\ ~IsFamilyA(Loads(sent.body.s).v)

\* ------------------------------------------------ the sales analysis
\* The revenue of the data rows of a file, summed by product and by date,
\* computed on the rows themselves.
RowRevenue(row) == ParseInt(row[3]) * ParseInt(row[4])

RECURSIVE SumRevenue(_, _)
SumRevenue(file, I) ==
    IF I = {} THEN 0
    ELSE LET i == CHOOSE j \in I : TRUE IN RowRevenue(file[i]) + SumRevenue(file, I \ {i})

DataRowsOf(file) == 2..Len(file)

ProductTotal(file, p) == SumRevenue(file, {i \in DataRowsOf(file) : file[i][2] = p})

DateTotal(file, d) == SumRevenue(file, {i \in DataRowsOf(file) : file[i][1] = d})

BestProducts(file) ==
    {file[i][2] : i \in {i \in DataRowsOf(file) :
        \A j \in DataRowsOf(file) :
            ProductTotal(file, file[i][2]) >= ProductTotal(file, file[j][2])}}

BestDates(file) ==
    {file[i][1] : i \in {i \in DataRowsOf(file) :
        \A j \in DataRowsOf(file) :
            DateTotal(file, file[i][1]) >= DateTotal(file, file[j][1])}}

Ran_6f2c28aa == site = "6f2c28aa" /\ DataRowsOf(sales_csv) # {}

\* C16, as stated: the analysis program prints as 'Product with max
\* revenue' a product whose summed price * units_sold over its rows is the
\* greatest of all products.
C16_Original ==
    Ran_6f2c28aa
       => \E p \in BestProducts(sales_csv) :
             out[3] = PyPrint(<<"Product with max revenue:", " ">> \o p)

\* on the fixture the program prints P002, the product of the last row,
\* while P003 has the greatest revenue
C16_Witness ==
    /\ Ran_6f2c28aa
    /\ sales_csv = WriteRows(data)
    /\ out[3] = PyPrint(<<"Product with max revenue:", " ", "P002">>)
    /\ BestProducts(sales_csv) = {<<"P003">>}
    /\ ProductTotal(sales_csv, <<"P003">>) = 14910
    /\ ProductTotal(sales_csv, <<"P002">>) = 8880

\* C17, as stated: the analysis program prints as 'Date with max revenue'
\* a date whose revenue, summed over the rows of that date, is the greatest
\* of all dates.
C17_Original ==
    Ran_6f2c28aa
       => \E d \in BestDates(sales_csv) :
             out[4] = PyPrint(<<"Date with max revenue:", " ">> \o d)

\* on the fixture the program prints 2023-05-25, the date of the last row,
\* while 2023-04-23 has the greatest revenue
C17_Witness ==
    /\ Ran_6f2c28aa
    /\ sales_csv = WriteRows(data)
    /\ out[4] = PyPrint(<<"Date with max revenue:", " ", "2023-05", "-25">>)
    /\ BestDates(sales_csv) = {<<"2023-04", "-23">>}
    /\ DateTotal(sales_csv, <<"2023-04", "-23">>) = 2380
    /\ DateTotal(sales_csv, <<"2023-05", "-25">>) = 1260

\* ------------------------------------------- the two modes of extraction
\* C19: on the text and tag of every call, the two modes agree: default
\* mode returns None exactly when extract-all mode does; otherwise
\* extract-all mode returns a non-empty list and default mode returns its
\* last element. What the call returned is the result of its own mode.
C19_ModesAgree ==
    Called_extract_by_tag
       => LET one == extract_by_tag(result.s, tag, FALSE)
              all == extract_by_tag(result.s, tag, TRUE)
          IN /\ one = PyNone <=> all = PyNone
             /\ all # PyNone => /\ all.t = "arr"
                                /\ all.a # <<>>
                                /\ one = all.a[Len(all.a)]
             /\ extracted = IF extract_all THEN all ELSE one

\* a default-mode call on a text whose elements of the tag differ in text
C19_Witness ==
    /\ Called_extract_by_tag /\ ~extract_all
    /\ extracted # PyNone
    /\ LET all == extract_by_tag(result.s, tag, TRUE) IN
       /\ Len(all.a) >= 2
       /\ all.a[1] # all.a[Len(all.a)]
       /\ extracted = all.a[Len(all.a)]

\* the end tag that closes an element of the tag
EndTagOf(tg) == CASE tg = "book" -> "</book>"
                  [] tg = "name" -> "</name>"
                  [] tg = "question" -> "</question>"

\* the start tag of the tag that comes last in src is followed at once by
\* its end tag, or by the end of the text
LastIsEmpty(src, tg) ==
    /\ StartTagsOf(src, tg) # {}
    /\ LET i == CHOOSE i \in StartTagsOf(src, tg) : \A j \in StartTagsOf(src, tg) : j <= i
       IN i = Len(src) \/ src[i + 1] = EndTagOf(tg)

\* C20: a tag that is present and empty is not taken for an absent one: on
\* a text whose last element of the tag has no content, default mode
\* returns the empty string, not None, and extract-all mode returns a list
\* whose last element is the empty string; so on "<book></book>".
C20_EmptyTagIsNotAbsent ==
    /\ (Called_extract_by_tag /\ LastIsEmpty(result.s, tag))
          => /\ extracted # PyNone
             /\ ~extract_all => extracted = JStr(<<>>)
             /\ extract_all => /\ extracted.t = "arr"
                               /\ extracted.a # <<>>
                               /\ extracted.a[Len(extracted.a)] = JStr(<<>>)
    /\ extract_by_tag(<<"<book>", "</book>">>, "book", FALSE) = JStr(<<>>)
    /\ extract_by_tag(<<"<book>", "</book>">>, "book", TRUE) = JArr(<<JStr(<<>>)>>)

\* default mode on a text that names a book and then gives an empty one
C20_Witness ==
    /\ Called_extract_by_tag /\ ~extract_all /\ tag = "book"
    /\ result.s = <<"<book>", "T", "</book>", "<book>">>
    /\ LastIsEmpty(result.s, tag)
    /\ extracted = JStr(<<>>)

====
